---- MODULE Spec2Model ----
(***************************************************************************)
(* Model of the TinyHAL audio device of bowser-common, audio/audio_hw.c:   *)
(* the route table and its loader, the mixer control sequencer             *)
(* (set_route_by_array), the device selection engine                       *)
(* (select_output_devices / select_input_devices) and the stream life      *)
(* cycle (open, write/read, standby, set_parameters, close), called by     *)
(* concurrent framework threads.                                           *)
(*                                                                         *)
(* A device mask is a 32-bit word; it is modelled as the set of the bit    *)
(* positions (0..31) that are set in it, so that a & b is an intersection, *)
(* a | b a union and a & ~b a set difference.  For unsigned 32-bit words   *)
(* "mask < 0x80000000" holds exactly when bit 31 is clear.                 *)
(***************************************************************************)
EXTENDS Integers, Sequences, FiniteSets, TLC

NULL == "NULL"

(***************************************************************************)
(* Device masks (system/audio.h values as quoted in dev_names[]).          *)
(***************************************************************************)
AUDIO_DEVICE_BIT_IN == {31}

AUDIO_DEVICE_OUT_EARPIECE == {0}
AUDIO_DEVICE_OUT_SPEAKER == {1}
AUDIO_DEVICE_OUT_WIRED_HEADSET == {2}
AUDIO_DEVICE_OUT_WIRED_HEADPHONE == {3}
AUDIO_DEVICE_OUT_ANLG_DOCK_HEADSET == {11}
AUDIO_DEVICE_OUT_DGTL_DOCK_HEADSET == {12}
AUDIO_DEVICE_OUT_ALL == (0..15) \cup {30}

AUDIO_DEVICE_IN_COMMUNICATION == {0, 31}
AUDIO_DEVICE_IN_AMBIENT == {1, 31}
AUDIO_DEVICE_IN_BUILTIN_MIC == {2, 31}
AUDIO_DEVICE_IN_WIRED_HEADSET == {4, 31}
AUDIO_DEVICE_IN_AUX_DIGITAL == {5, 31}
AUDIO_DEVICE_IN_BACK_MIC == {7, 31}
AUDIO_DEVICE_IN_ALL == (0..12) \cup {30, 31}

\* a & b is non-zero
And(a, b) == (a \cap b) # {}

\* mask < AUDIO_DEVICE_BIT_IN, an unsigned comparison
BelowBitIn(mask) == (mask \cap AUDIO_DEVICE_BIT_IN) = {}

dev_names ==
    << [mask |-> AUDIO_DEVICE_OUT_SPEAKER, name |-> "speaker"],
       [mask |-> AUDIO_DEVICE_OUT_WIRED_HEADSET \cup AUDIO_DEVICE_OUT_WIRED_HEADPHONE,
        name |-> "headphone"],
       [mask |-> AUDIO_DEVICE_OUT_EARPIECE, name |-> "earpiece"],
       [mask |-> AUDIO_DEVICE_OUT_ANLG_DOCK_HEADSET, name |-> "analog-dock"],
       [mask |-> AUDIO_DEVICE_OUT_DGTL_DOCK_HEADSET, name |-> "digital-dock"],
       [mask |-> AUDIO_DEVICE_IN_COMMUNICATION, name |-> "comms"],
       [mask |-> AUDIO_DEVICE_IN_AMBIENT, name |-> "ambient"],
       [mask |-> AUDIO_DEVICE_IN_BUILTIN_MIC, name |-> "builtin-mic"],
       [mask |-> AUDIO_DEVICE_IN_WIRED_HEADSET, name |-> "headset"],
       [mask |-> AUDIO_DEVICE_IN_AUX_DIGITAL, name |-> "digital"],
       [mask |-> AUDIO_DEVICE_IN_BACK_MIC, name |-> "back-mic"] >>

(***************************************************************************)
(* The mixer: the names of the controls the sound card has.                *)
(***************************************************************************)
MixerControls == {"Speaker Switch", "HP Switch", "HP Volume", "Mic Switch", "Ambient Switch"}

\* mixer_get_ctl_by_name: the control, or NULL when the card has none of that name
mixer_get_ctl_by_name(mixer, name) == IF name \in mixer THEN name ELSE NULL

(***************************************************************************)
(* set_route_by_array: the settings written to the mixer, in order (an     *)
(* enum by its string, an integer to every value of the control), and the  *)
(* result.  An entry whose control cannot be resolved ends the walk with   *)
(* -EINVAL.                                                                *)
(***************************************************************************)
RECURSIVE route_walk(_, _, _, _)
route_walk(mixer, route, i, written) ==
    IF i > Len(route)
    THEN [ret |-> "0", writes |-> written]
    ELSE IF mixer_get_ctl_by_name(mixer, route[i].ctl_name) = NULL
         THEN [ret |-> "-EINVAL", writes |-> written]
         ELSE route_walk(mixer, route, i + 1,
                         Append(written, route[i]))

set_route_by_array(mixer, route) == route_walk(mixer, route, 1, <<>>)

(***************************************************************************)
(* The configuration loader.  The file is a stream of XML element events   *)
(* (expat start/end handlers); name and val are the attributes of the      *)
(* element, NULL when absent.                                              *)
(***************************************************************************)
Start(elem, name, val) == [kind |-> "start", elem |-> elem, name |-> name, val |-> val]
End(elem) == [kind |-> "end", elem |-> elem, name |-> NULL, val |-> NULL]

Ctl(name, val) == << Start("ctl", name, val), End("ctl") >>
Path(name, ctls) == << Start("path", name, NULL) >> \o ctls \o << End("path") >>
Device(name, on, off) ==
    << Start("device", name, NULL) >> \o Path("on", on) \o Path("off", off)
        \o << End("device") >>

\* atoi on the attribute values the configurations use
atoi(val) == CASE val = "1" -> 1
               [] val = "2" -> 2
               [] OTHER -> 0

parse_state0 ==
    [dev_cfgs |-> <<>>, dev |-> 0, on |-> FALSE, path |-> <<>>, applied |-> <<>>]

\* index of the dev_names entry called name, 0 when there is none
RECURSIVE dev_names_lookup(_, _)
dev_names_lookup(name, i) ==
    IF i > Len(dev_names) THEN 0
    ELSE IF dev_names[i].name = name THEN i
    ELSE dev_names_lookup(name, i + 1)

adev_config_start(s, e) ==
    CASE e.elem = "device" ->
            IF e.name = NULL \/ dev_names_lookup(e.name, 1) = 0
            THEN s
            ELSE [s EXCEPT !.dev_cfgs =
                               Append(@, [mask |-> dev_names[dev_names_lookup(e.name, 1)].mask,
                                          on |-> <<>>, off |-> <<>>]),
                           !.dev = Len(s.dev_cfgs) + 1]
      [] e.elem = "path" ->
            IF s.dev # 0 /\ e.name = "on" THEN [s EXCEPT !.on = TRUE]
            ELSE IF s.dev # 0 /\ e.name = "off" THEN [s EXCEPT !.on = FALSE]
            ELSE s
      [] e.elem = "ctl" ->
            IF e.name = NULL \/ e.val = NULL
            THEN s
            ELSE [s EXCEPT !.path =
                      Append(@, [ctl_name |-> e.name,
                                 intval |-> atoi(e.val),
                                 strval |-> IF atoi(e.val) = 0 /\ e.val # "0"
                                            THEN e.val ELSE NULL])]
      [] OTHER -> s

\* applied: the default (device-less) paths written to the mixer while loading
adev_config_end(s, e) ==
    CASE e.elem = "path" ->
            IF s.dev = 0
            THEN [s EXCEPT !.applied = Append(@, s.path), !.path = <<>>]
            ELSE IF s.on
                 THEN [s EXCEPT !.dev_cfgs[s.dev].on = s.path, !.path = <<>>]
                 ELSE [s EXCEPT !.dev_cfgs[s.dev].off = s.path, !.path = <<>>]
      [] e.elem = "device" -> [s EXCEPT !.dev = 0]
      [] OTHER -> s

\* expat: the handlers are called element by element, each on the state the
\* previous one left (the state is evaluated before the next handler runs)
RECURSIVE XML_Parse(_, _, _)
XML_Parse(s, events, i) ==
    IF i > Len(events) THEN s
    ELSE LET s2 == IF events[i].kind = "start"
                   THEN adev_config_start(s, events[i])
                   ELSE adev_config_end(s, events[i])
         IN  IF s2.dev <= Len(s2.dev_cfgs)
             THEN XML_Parse(s2, events, i + 1)
             ELSE s2

\* file: the configuration file; status is "ok", "missing" (fopen fails),
\* "ioerror" (fread fails) or "malformed" (XML_Parse reports an error); the
\* events of a file that is not "ok" are those parsed before the error
adev_config_parse(file) ==
    CASE file.status = "missing" -> [ret |-> "-ENODEV", s |-> parse_state0]
      [] file.status = "ioerror" ->
            [ret |-> "-EIO", s |-> XML_Parse(parse_state0, file.events, 1)]
      [] file.status = "malformed" ->
            [ret |-> "-EINVAL", s |-> XML_Parse(parse_state0, file.events, 1)]
      [] OTHER -> [ret |-> "0", s |-> XML_Parse(parse_state0, file.events, 1)]

(***************************************************************************)
(* The configuration files of the model.                                   *)
(***************************************************************************)
BoardConfig ==
    [status |-> "ok",
     events |->
        Device("speaker", Ctl("Speaker Switch", "1"), Ctl("Speaker Switch", "0"))
     \o Device("headphone",
               Ctl("HP Switch", "1") \o Ctl("HP Volume", "2"),
               Ctl("HP Volume", "0") \o Ctl("HP Jack", "Off") \o Ctl("HP Switch", "0"))
     \o Device("ambient", Ctl("Ambient Switch", "On"), Ctl("Ambient Switch", "Off"))
     \o Device("builtin-mic", Ctl("Mic Switch", "1"), Ctl("Mic Switch", "0"))]

\* a board file with a block for a device that dev_names does not have
HdmiConfig ==
    [status |-> "ok",
     events |->
        Device("hdmi", Ctl("HP Switch", "1"), Ctl("HP Volume", "0"))
     \o Device("speaker", Ctl("Speaker Switch", "1"), Ctl("Speaker Switch", "0"))]

\* a board file that names the speaker twice
DuplicateConfig ==
    [status |-> "ok",
     events |->
        Device("speaker", Ctl("Speaker Switch", "1"), Ctl("Speaker Switch", "0"))
     \o Device("speaker", Ctl("HP Volume", "2"), Ctl("HP Volume", "0"))]

\* no file of the board's name
MissingConfig == [status |-> "missing", events |-> <<>>]

\* a read error after the speaker block
IoErrorConfig == [status |-> "ioerror", events |-> SubSeq(BoardConfig.events, 1, 10)]

\* the file ends inside the headphone block
MalformedConfig == [status |-> "malformed", events |-> SubSeq(BoardConfig.events, 1, 14)]

Configs ==
    {BoardConfig, HdmiConfig, DuplicateConfig, MissingConfig, IoErrorConfig,
     MalformedConfig}

(***************************************************************************)
(* The device selection engine.  A mixer call is recorded as the route     *)
(* entry (index into dev_cfgs) and the path ("on" or "off") handed to      *)
(* set_route_by_array.                                                      *)
(***************************************************************************)
Indices(cfgs) == [i \in 1..Len(cfgs) |-> i]

RouteCalls(idx, path) == [k \in 1..Len(idx) |-> [cfg |-> idx[k], path |-> path]]

\* Variants of select_output_devices with a plausible slip, used to test the
\* properties below: the final assignment missing, the two phases swapped,
\* and the "not yet active" test missing.
select_output_devices_no_commit(cfgs, devices_o, active_o) ==
    IF active_o = devices_o
    THEN [calls |-> <<>>, active |-> active_o]
    ELSE [calls |->
             RouteCalls(SelectSeq(Indices(cfgs),
                                  LAMBDA i : /\ BelowBitIn(cfgs[i].mask)
                                             /\ And(devices_o, cfgs[i].mask)
                                             /\ ~And(active_o, cfgs[i].mask)), "on")
          \o RouteCalls(SelectSeq(Indices(cfgs),
                                  LAMBDA i : /\ BelowBitIn(cfgs[i].mask)
                                             /\ ~And(devices_o, cfgs[i].mask)
                                             /\ And(active_o, cfgs[i].mask)), "off"),
          active |-> active_o]

select_output_devices_off_first(cfgs, devices_o, active_o) ==
    IF active_o = devices_o
    THEN [calls |-> <<>>, active |-> active_o]
    ELSE [calls |->
             RouteCalls(SelectSeq(Indices(cfgs),
                                  LAMBDA i : /\ BelowBitIn(cfgs[i].mask)
                                             /\ ~And(devices_o, cfgs[i].mask)
                                             /\ And(active_o, cfgs[i].mask)), "off")
          \o RouteCalls(SelectSeq(Indices(cfgs),
                                  LAMBDA i : /\ BelowBitIn(cfgs[i].mask)
                                             /\ And(devices_o, cfgs[i].mask)
                                             /\ ~And(active_o, cfgs[i].mask)), "on"),
          active |-> devices_o]

select_output_devices_reapply(cfgs, devices_o, active_o) ==
    [calls |->
         RouteCalls(SelectSeq(Indices(cfgs),
                              LAMBDA i : /\ BelowBitIn(cfgs[i].mask)
                                         /\ And(devices_o, cfgs[i].mask)), "on")
      \o RouteCalls(SelectSeq(Indices(cfgs),
                              LAMBDA i : /\ BelowBitIn(cfgs[i].mask)
                                         /\ ~And(devices_o, cfgs[i].mask)
                                         /\ And(active_o, cfgs[i].mask)), "off"),
     active |-> devices_o]

\* A variant of select_input_devices without the test of the input range.
select_input_devices_any_range(cfgs, devices_i, active_i) ==
    IF active_i = devices_i
    THEN [calls |-> <<>>, active |-> active_i]
    ELSE [calls |->
             RouteCalls(SelectSeq(Indices(cfgs),
                                  LAMBDA i : /\ And(devices_i, cfgs[i].mask)
                                             /\ ~And(active_i, cfgs[i].mask)), "on")
          \o RouteCalls(SelectSeq(Indices(cfgs),
                                  LAMBDA i : /\ ~And(devices_i, cfgs[i].mask)
                                             /\ And(active_i, cfgs[i].mask)), "off"),
          active |-> devices_i]

\* A variant that turns off every active entry, requested again or not.
select_output_devices_off_active(cfgs, devices_o, active_o) ==
    IF active_o = devices_o
    THEN [calls |-> <<>>, active |-> active_o]
    ELSE [calls |->
             RouteCalls(SelectSeq(Indices(cfgs),
                                  LAMBDA i : /\ BelowBitIn(cfgs[i].mask)
                                             /\ And(devices_o, cfgs[i].mask)
                                             /\ ~And(active_o, cfgs[i].mask)), "on")
          \o RouteCalls(SelectSeq(Indices(cfgs),
                                  LAMBDA i : /\ BelowBitIn(cfgs[i].mask)
                                             /\ And(active_o, cfgs[i].mask)), "off"),
          active |-> devices_o]

\* A variant that compares the masks bit by bit within an entry.
select_output_devices_per_bit(cfgs, devices_o, active_o) ==
    IF active_o = devices_o
    THEN [calls |-> <<>>, active |-> active_o]
    ELSE [calls |->
             RouteCalls(SelectSeq(Indices(cfgs),
                                  LAMBDA i : /\ BelowBitIn(cfgs[i].mask)
                                             /\ And(devices_o \ active_o, cfgs[i].mask)), "on")
          \o RouteCalls(SelectSeq(Indices(cfgs),
                                  LAMBDA i : /\ BelowBitIn(cfgs[i].mask)
                                             /\ And(active_o \ devices_o, cfgs[i].mask)), "off"),
          active |-> devices_o]

\* result: the set_route_by_array calls made, in order, and the new active mask
select_output_devices(cfgs, devices_o, active_o) ==
    IF active_o = devices_o
    THEN [calls |-> <<>>, active |-> active_o]
    ELSE [calls |->
             RouteCalls(SelectSeq(Indices(cfgs),
                                  LAMBDA i : /\ BelowBitIn(cfgs[i].mask)
                                             /\ And(devices_o, cfgs[i].mask)
                                             /\ ~And(active_o, cfgs[i].mask)), "on")
          \o RouteCalls(SelectSeq(Indices(cfgs),
                                  LAMBDA i : /\ BelowBitIn(cfgs[i].mask)
                                             /\ ~And(devices_o, cfgs[i].mask)
                                             /\ And(active_o, cfgs[i].mask)), "off"),
          active |-> devices_o]

select_input_devices(cfgs, devices_i, active_i) ==
    IF active_i = devices_i
    THEN [calls |-> <<>>, active |-> active_i]
    ELSE [calls |->
             RouteCalls(SelectSeq(Indices(cfgs),
                                  LAMBDA i : /\ ~BelowBitIn(cfgs[i].mask)
                                             /\ And(devices_i, cfgs[i].mask)
                                             /\ ~And(active_i, cfgs[i].mask)), "on")
          \o RouteCalls(SelectSeq(Indices(cfgs),
                                  LAMBDA i : /\ ~BelowBitIn(cfgs[i].mask)
                                             /\ ~And(devices_i, cfgs[i].mask)
                                             /\ And(active_i, cfgs[i].mask)), "off"),
          active |-> devices_i]

(***************************************************************************)
(* Bounds and inputs.                                                      *)
(***************************************************************************)
NumThreads == 2
MaxOut == 2
MaxIn == 1
MaxCalls == 4
MaxSeqCalls == 5
MaxFairCalls == 3

Threads == 1..NumThreads
OutIds == 1..MaxOut
InIds == 1..MaxIn

\* device sets the framework asks for
OutDevices ==
    { AUDIO_DEVICE_OUT_SPEAKER,
      AUDIO_DEVICE_OUT_WIRED_HEADSET,
      AUDIO_DEVICE_OUT_WIRED_HEADPHONE,
      AUDIO_DEVICE_OUT_WIRED_HEADSET \cup AUDIO_DEVICE_OUT_WIRED_HEADPHONE }
InDevices == { AUDIO_DEVICE_IN_AMBIENT, AUDIO_DEVICE_IN_BUILTIN_MIC }

(***************************************************************************)
(* State.                                                                  *)
(***************************************************************************)
VARIABLES
    cfg,                 \* the configuration file under /system/etc/sound
    device,              \* "unopened", "opening" (inside adev_open), "open"
                         \* (adev_open returned 0) or "failed"
    dev_cfgs,            \* adev->dev_cfgs, the route table
    devices_out,         \* adev->devices_out, the requested output mask
    active_devices_out,  \* adev->active_devices_out
    devices_in,          \* adev->devices_in, the requested input mask
    active_devices_in,   \* adev->active_devices_in
    route_lock,          \* adev->route_lock: 0, or the thread that holds it
    out_stream,          \* per output stream: "free", "alloc" (being opened), "live"
    out_pcm,             \* out->pcm: NULL, "ready", or "closed" (a non-null
                         \* pointer to a handle that pcm_close was called on)
    in_stream,
    in_pcm,              \* in->pcm
    in_lock,             \* in->lock: 0, or the thread that holds it
    pc,                  \* per thread: where it is in the call it is making
    call,                \* per thread: arguments, locals and the mixer calls of its call
    last,                \* per route entry: the path most recently applied to the mixer
    ncalls,              \* the number of calls the framework has made on the open device
    calls_allowed        \* the number of calls it makes in all

vars == << cfg, device, dev_cfgs, devices_out, active_devices_out, devices_in,
           active_devices_in, route_lock, out_stream, out_pcm, in_stream, in_pcm,
           in_lock, pc, call, last, ncalls, calls_allowed >>

masks == << devices_out, active_devices_out, devices_in, active_devices_in >>
streams == << out_stream, out_pcm, in_stream, in_pcm, in_lock >>
table == << cfg, device, dev_cfgs, calls_allowed >>

\* applied: the default routes adev_config_end has written to the mixer
NoCall ==
    [op |-> NULL, s |-> 0, devices |-> {}, i |-> 0, log |-> <<>>, failed |-> FALSE,
     req |-> {}, act |-> {}, card |-> NULL, ret |-> NULL, applied |-> <<>>,
     supported |-> {}]

\* the route setting sequence a mixer call hands to set_route_by_array
RouteOf(cfgs, c) == IF c.path = "on" THEN cfgs[c.cfg].on ELSE cfgs[c.cfg].off

\* the settings a mixer call writes
Writes(cfgs, c) == set_route_by_array(MixerControls, RouteOf(cfgs, c)).writes

\* The outcomes of a sequence of mixer calls: TRUE when some write of them
\* fails (mixer_ctl_set_value / mixer_ctl_set_enum_by_string # 0).  The
\* failure is logged by set_route_by_array and nothing else depends on it.
Outcomes(cfgs, calls) ==
    IF \E k \in 1..Len(calls) : Writes(cfgs, calls[k]) # <<>> THEN BOOLEAN ELSE {FALSE}

Max(S) == CHOOSE x \in S : \A y \in S : y <= x

\* the most recently applied path of every route entry after the calls
LastAfter(l, calls) ==
    [i \in DOMAIN l |->
        LET ks == {k \in 1..Len(calls) : calls[k].cfg = i}
        IN  IF ks = {} THEN l[i] ELSE calls[Max(ks)].path]

\* the state before adev_open, with n calls to come on the device
InitCalls(n) ==
    /\ cfg \in Configs
    /\ device = "unopened"
    /\ dev_cfgs = <<>>
    /\ devices_out = {}
    /\ active_devices_out = {}
    /\ devices_in = {}
    /\ active_devices_in = {}
    /\ route_lock = 0
    /\ out_stream = [s \in OutIds |-> "free"]
    /\ out_pcm = [s \in OutIds |-> NULL]
    /\ in_stream = [s \in InIds |-> "free"]
    /\ in_pcm = [s \in InIds |-> NULL]
    /\ in_lock = [s \in InIds |-> 0]
    /\ pc = [t \in Threads |-> "idle"]
    /\ call = [t \in Threads |-> NoCall]
    /\ last = <<>>
    /\ ncalls = 0
    /\ calls_allowed = n

Init == InitCalls(MaxCalls)

(***************************************************************************)
(* Helpers of the actions.                                                 *)
(***************************************************************************)
Goto(t, to) == pc' = [pc EXCEPT ![t] = to]

\* the framework makes one more call on the device
Enter == ncalls < calls_allowed /\ ncalls' = ncalls + 1

\* no other thread is inside a call on output stream s (the framework
\* serializes the calls on one output stream)
OutOps == {"out_set_parameters", "out_write", "out_standby"}
InOps == {"in_read", "in_standby"}

OutIdle(s) == \A u \in Threads : ~(pc[u] # "idle" /\ call[u].op \in OutOps /\ call[u].s = s)

\* no thread is inside a call on input stream s
InIdle(s) == \A u \in Threads : ~(pc[u] # "idle" /\ call[u].op \in InOps /\ call[u].s = s)

\* the next route entry at or after i whose mask is in the output (isout) or
\* input range; Len(dev_cfgs) + 1 when there is none
NextIdx(i, isout) ==
    LET c == {j \in i..Len(dev_cfgs) : BelowBitIn(dev_cfgs[j].mask) = isout}
    IN  IF c = {} THEN Len(dev_cfgs) + 1 ELSE CHOOSE j \in c : \A k \in c : j <= k

\* for (i ...) if (in range) if (devices & mask): the test of entry call[t].i
\* against the requested mask devs, read without the route lock
RouteTest(t, here, apply, done, isout, devs) ==
    /\ pc[t] = here
    /\ IF And(devs, dev_cfgs[call[t].i].mask)
       THEN /\ Goto(t, apply)
            /\ UNCHANGED call
       ELSE LET n == NextIdx(call[t].i + 1, isout)
            IN  /\ call' = [call EXCEPT ![t].i = n]
                /\ Goto(t, IF n > Len(dev_cfgs) THEN done ELSE here)

\* set_route_by_array(mixer, dev_cfgs[i].on / .off, ...) for entry call[t].i
RouteApply(t, here, test, done, isout, path) ==
    /\ pc[t] = here
    /\ LET log == << [cfg |-> call[t].i, path |-> path] >>
           n == NextIdx(call[t].i + 1, isout)
       IN  /\ \E f \in Outcomes(dev_cfgs, log) :
                call' = [call EXCEPT ![t].i = n, ![t].log = @ \o log,
                                     ![t].failed = @ \/ f]
           /\ last' = LastAfter(last, log)
           /\ Goto(t, IF n > Len(dev_cfgs) THEN done ELSE test)

(***************************************************************************)
(* adev_open: open the mixer, load the configuration, bootstrap routing.   *)
(* The device is not visible to any other thread before adev_open returns. *)
(* select_output_devices and select_input_devices are called without the   *)
(* route lock.                                                             *)
(***************************************************************************)
\* A variant that does not test the result of adev_config_parse.
adev_open_parse_unchecked(t) ==
    /\ device = "unopened"
    /\ pc[t] = "idle"
    /\ device' = "opening"
    /\ \E mixer_ok \in BOOLEAN :
        LET p == adev_config_parse(cfg)
            so == select_output_devices(p.s.dev_cfgs, AUDIO_DEVICE_OUT_SPEAKER, {})
            si == select_input_devices(p.s.dev_cfgs, AUDIO_DEVICE_IN_BUILTIN_MIC, {})
        IN  IF ~mixer_ok
            THEN /\ call' = [call EXCEPT ![t].op = "adev_open", ![t].ret = "-EINVAL"]
                 /\ UNCHANGED << dev_cfgs, masks, last >>
            ELSE /\ dev_cfgs' = p.s.dev_cfgs
                 /\ devices_out' = AUDIO_DEVICE_OUT_SPEAKER
                 /\ devices_in' = AUDIO_DEVICE_IN_BUILTIN_MIC
                 /\ active_devices_out' = so.active
                 /\ active_devices_in' = si.active
                 /\ \E f \in Outcomes(p.s.dev_cfgs, so.calls \o si.calls) :
                        call' = [call EXCEPT ![t].op = "adev_open", ![t].ret = "0",
                                             ![t].log = so.calls \o si.calls,
                                             ![t].failed = f,
                                             ![t].applied = p.s.applied]
                 /\ last' = LastAfter([i \in 1..Len(p.s.dev_cfgs) |-> "none"],
                                      so.calls \o si.calls)
    /\ Goto(t, "ao_ret")
    /\ UNCHANGED << cfg, route_lock, streams, ncalls, calls_allowed >>

adev_open(t) ==
    /\ device = "unopened"
    /\ pc[t] = "idle"
    /\ device' = "opening"
    /\ \E mixer_ok \in BOOLEAN :
        LET p == adev_config_parse(cfg)
            so == select_output_devices(p.s.dev_cfgs, AUDIO_DEVICE_OUT_SPEAKER, {})
            si == select_input_devices(p.s.dev_cfgs, AUDIO_DEVICE_IN_BUILTIN_MIC, {})
        IN  IF ~mixer_ok
            THEN /\ call' = [call EXCEPT ![t].op = "adev_open", ![t].ret = "-EINVAL"]
                 /\ UNCHANGED << dev_cfgs, masks, last >>
            ELSE IF p.ret # "0"
            THEN /\ dev_cfgs' = p.s.dev_cfgs
                 /\ last' = [i \in 1..Len(p.s.dev_cfgs) |-> "none"]
                 /\ call' = [call EXCEPT ![t].op = "adev_open", ![t].ret = "-EINVAL",
                                         ![t].applied = p.s.applied]
                 /\ UNCHANGED masks
            ELSE /\ dev_cfgs' = p.s.dev_cfgs
                 /\ devices_out' = AUDIO_DEVICE_OUT_SPEAKER
                 /\ devices_in' = AUDIO_DEVICE_IN_BUILTIN_MIC
                 /\ active_devices_out' = so.active
                 /\ active_devices_in' = si.active
                 /\ \E f \in Outcomes(p.s.dev_cfgs, so.calls \o si.calls) :
                        call' = [call EXCEPT ![t].op = "adev_open", ![t].ret = "0",
                                             ![t].log = so.calls \o si.calls,
                                             ![t].failed = f,
                                             ![t].applied = p.s.applied]
                 /\ last' = LastAfter([i \in 1..Len(p.s.dev_cfgs) |-> "none"],
                                      so.calls \o si.calls)
    /\ Goto(t, "ao_ret")
    /\ UNCHANGED << cfg, route_lock, streams, ncalls, calls_allowed >>

(***************************************************************************)
(* adev_open_output_stream                                                 *)
(***************************************************************************)
\* out = calloc(...); out->adev = adev.  The new stream is the first free one.
adev_open_output_stream_call(t, s, devices) ==
    /\ device = "open"
    /\ pc[t] = "idle"
    /\ Enter
    /\ out_stream[s] = "free"
    /\ \A s2 \in OutIds : s2 < s => out_stream[s2] # "free"
    /\ out_stream' = [out_stream EXCEPT ![s] = "alloc"]
    /\ out_pcm' = [out_pcm EXCEPT ![s] = NULL]
    /\ call' = [call EXCEPT ![t].op = "open_out", ![t].s = s, ![t].devices = devices]
    /\ Goto(t, "oo_lock")
    /\ UNCHANGED << table, masks, route_lock, in_stream, in_pcm, in_lock, last >>

\* pthread_mutex_lock(&adev->route_lock)
adev_open_output_stream_lock(t) ==
    /\ pc[t] = "oo_lock"
    /\ route_lock = 0
    /\ route_lock' = t
    /\ Goto(t, "oo_clear")
    /\ UNCHANGED << table, masks, streams, call, last, ncalls >>

\* A variant that forgets to clear the previous output selection.
adev_open_output_stream_clear_skipped(t) ==
    /\ pc[t] = "oo_clear"
    /\ Goto(t, "oo_select")
    /\ UNCHANGED << table, masks, route_lock, streams, call, last, ncalls >>

\* adev->devices_out &= ~AUDIO_DEVICE_OUT_ALL
adev_open_output_stream_clear(t) ==
    /\ pc[t] = "oo_clear"
    /\ devices_out' = devices_out \ AUDIO_DEVICE_OUT_ALL
    /\ Goto(t, "oo_select")
    /\ UNCHANGED << table, active_devices_out, devices_in, active_devices_in,
                    route_lock, streams, call, last, ncalls >>

\* adev->devices_out |= devices; select_output_devices(adev)
OutputSelect(t, here, to) ==
    /\ pc[t] = here
    /\ LET req == devices_out \cup call[t].devices
           sel == select_output_devices(dev_cfgs, req, active_devices_out)
       IN  /\ devices_out' = req
           /\ active_devices_out' = sel.active
           /\ \E f \in Outcomes(dev_cfgs, sel.calls) :
                call' = [call EXCEPT ![t].log = sel.calls, ![t].failed = f,
                                     ![t].req = req, ![t].act = active_devices_out]
           /\ last' = LastAfter(last, sel.calls)
    /\ Goto(t, to)
    /\ UNCHANGED << table, devices_in, active_devices_in, route_lock, streams, ncalls >>

adev_open_output_stream_select(t) == OutputSelect(t, "oo_select", "oo_unlock")

\* pthread_mutex_unlock(&adev->route_lock); *stream_out = &out->stream; return 0
adev_open_output_stream_unlock(t) ==
    /\ pc[t] = "oo_unlock"
    /\ route_lock' = 0
    /\ call' = [call EXCEPT ![t].ret = "0"]
    /\ Goto(t, "oo_ret")
    /\ UNCHANGED << table, masks, streams, last, ncalls >>

(***************************************************************************)
(* adev_open_input_stream                                                  *)
(***************************************************************************)
\* in = calloc(...); pthread_mutex_init(&in->lock, NULL)
adev_open_input_stream_call(t, s, devices) ==
    /\ device = "open"
    /\ pc[t] = "idle"
    /\ Enter
    /\ in_stream[s] = "free"
    /\ \A s2 \in InIds : s2 < s => in_stream[s2] # "free"
    /\ in_stream' = [in_stream EXCEPT ![s] = "alloc"]
    /\ in_pcm' = [in_pcm EXCEPT ![s] = NULL]
    /\ in_lock' = [in_lock EXCEPT ![s] = 0]
    /\ call' = [call EXCEPT ![t].op = "open_in", ![t].s = s, ![t].devices = devices]
    /\ Goto(t, "oi_lock")
    /\ UNCHANGED << table, masks, route_lock, out_stream, out_pcm, last >>

adev_open_input_stream_lock(t) ==
    /\ pc[t] = "oi_lock"
    /\ route_lock = 0
    /\ route_lock' = t
    /\ Goto(t, "oi_clear")
    /\ UNCHANGED << table, masks, streams, call, last, ncalls >>

\* adev->devices_in &= ~AUDIO_DEVICE_IN_ALL
adev_open_input_stream_clear(t) ==
    /\ pc[t] = "oi_clear"
    /\ devices_in' = devices_in \ AUDIO_DEVICE_IN_ALL
    /\ Goto(t, "oi_select")
    /\ UNCHANGED << table, devices_out, active_devices_out, active_devices_in,
                    route_lock, streams, call, last, ncalls >>

\* adev->devices_in |= devices; select_input_devices(adev)
adev_open_input_stream_select(t) ==
    /\ pc[t] = "oi_select"
    /\ LET req == devices_in \cup call[t].devices
           sel == select_input_devices(dev_cfgs, req, active_devices_in)
       IN  /\ devices_in' = req
           /\ active_devices_in' = sel.active
           /\ \E f \in Outcomes(dev_cfgs, sel.calls) :
                call' = [call EXCEPT ![t].log = sel.calls, ![t].failed = f,
                                     ![t].req = req, ![t].act = active_devices_in]
           /\ last' = LastAfter(last, sel.calls)
    /\ Goto(t, "oi_unlock")
    /\ UNCHANGED << table, devices_out, active_devices_out, route_lock, streams, ncalls >>

adev_open_input_stream_unlock(t) ==
    /\ pc[t] = "oi_unlock"
    /\ route_lock' = 0
    /\ call' = [call EXCEPT ![t].ret = "0"]
    /\ Goto(t, "oi_ret")
    /\ UNCHANGED << table, masks, streams, last, ncalls >>

(***************************************************************************)
(* out_set_parameters: key is whether kvpairs holds the routing key        *)
(* (str_parms_get_str >= 0), val its value (atoi) as a device mask.        *)
(***************************************************************************)
\* A variant without the test of val against 0.
out_set_parameters_call_zero_routed(t, s, key, val) ==
    /\ pc[t] = "idle"
    /\ Enter
    /\ out_stream[s] = "live"
    /\ OutIdle(s)
    /\ call' = [call EXCEPT ![t].op = "out_set_parameters", ![t].s = s, ![t].devices = val,
                            ![t].ret = IF key THEN ">=0" ELSE "-ENOENT"]
    /\ Goto(t, IF key THEN "sp_lock" ELSE "sp_ret")
    /\ UNCHANGED << table, masks, route_lock, streams, last >>

\* ret = str_parms_get_str(...): the length of the value (>= 0), or -ENOENT
\* when kvpairs has no routing key; if (ret >= 0) { val = atoi(value);
\* if (val != 0) ... }
out_set_parameters_call(t, s, key, val) ==
    /\ pc[t] = "idle"
    /\ Enter
    /\ out_stream[s] = "live"
    /\ OutIdle(s)
    /\ call' = [call EXCEPT ![t].op = "out_set_parameters", ![t].s = s, ![t].devices = val,
                            ![t].ret = IF key THEN ">=0" ELSE "-ENOENT"]
    /\ Goto(t, IF key /\ val # {} THEN "sp_lock" ELSE "sp_ret")
    /\ UNCHANGED << table, masks, route_lock, streams, last >>

out_set_parameters_lock(t) ==
    /\ pc[t] = "sp_lock"
    /\ route_lock = 0
    /\ route_lock' = t
    /\ Goto(t, "sp_clear")
    /\ UNCHANGED << table, masks, streams, call, last, ncalls >>

out_set_parameters_clear(t) ==
    /\ pc[t] = "sp_clear"
    /\ devices_out' = devices_out \ AUDIO_DEVICE_OUT_ALL
    /\ Goto(t, "sp_select")
    /\ UNCHANGED << table, active_devices_out, devices_in, active_devices_in,
                    route_lock, streams, call, last, ncalls >>

out_set_parameters_select(t) == OutputSelect(t, "sp_select", "sp_unlock")

\* A variant that returns without releasing the route lock.
out_set_parameters_unlock_missing(t) ==
    /\ pc[t] = "sp_unlock"
    /\ Goto(t, "sp_ret")
    /\ UNCHANGED << table, masks, route_lock, streams, call, last, ncalls >>

out_set_parameters_unlock(t) ==
    /\ pc[t] = "sp_unlock"
    /\ route_lock' = 0
    /\ Goto(t, "sp_ret")
    /\ UNCHANGED << table, masks, streams, call, last, ncalls >>

(***************************************************************************)
(* out_write.  The framework makes one call at a time on an output stream. *)
(* The requested mask is read without the route lock.                      *)
(***************************************************************************)
\* if (!out->pcm) ... else pcm_mmap_write
out_write_call(t, s) ==
    /\ pc[t] = "idle"
    /\ Enter
    /\ out_stream[s] = "live"
    /\ OutIdle(s)
    /\ LET n == NextIdx(1, TRUE)
       IN  /\ call' = [call EXCEPT ![t].op = "out_write", ![t].s = s, ![t].i = n]
           /\ Goto(t, IF out_pcm[s] # NULL THEN "ow_mmap"
                      ELSE IF n > Len(dev_cfgs) THEN "ow_open" ELSE "ow_test")
    /\ UNCHANGED << table, masks, route_lock, streams, last >>

\* if (out->adev->devices_out & out->adev->dev_cfgs[i].mask)
out_write_test(t) ==
    /\ RouteTest(t, "ow_test", "ow_on", "ow_open", TRUE, devices_out)
    /\ UNCHANGED << table, masks, route_lock, streams, last, ncalls >>

\* set_route_by_array(out->adev->mixer, out->adev->dev_cfgs[i].on, ...)
out_write_on(t) ==
    /\ RouteApply(t, "ow_on", "ow_test", "ow_open", TRUE, "on")
    /\ UNCHANGED << table, masks, route_lock, streams, ncalls >>

\* card selection from devices_out; out->pcm = pcm_open(...);
\* if (!pcm_is_ready(out->pcm)) { pcm_close(out->pcm); return -EBUSY; }
out_write_open(t) ==
    /\ pc[t] = "ow_open"
    /\ \E ready \in BOOLEAN :
         /\ out_pcm' = [out_pcm EXCEPT ![call[t].s] = IF ready THEN "ready" ELSE "closed"]
         /\ call' = [call EXCEPT
                ![t].card = IF And(devices_out, AUDIO_DEVICE_OUT_ANLG_DOCK_HEADSET)
                               \/ And(devices_out, AUDIO_DEVICE_OUT_DGTL_DOCK_HEADSET)
                            THEN "CARD_USB" ELSE "CARD_ABE",
                ![t].ret = IF ready THEN @ ELSE "-EBUSY"]
         /\ Goto(t, IF ready THEN "ow_mmap" ELSE "ow_ret")
    /\ UNCHANGED << table, masks, route_lock, out_stream, in_stream, in_pcm, in_lock, last, ncalls >>

\* ret = pcm_mmap_write(out->pcm, buffer, bytes); return ret != 0 ? ret : bytes
out_write_mmap(t) ==
    /\ pc[t] = "ow_mmap"
    /\ \E ok \in BOOLEAN :
         call' = [call EXCEPT ![t].ret = IF ok THEN "bytes" ELSE "-EIO"]
    /\ Goto(t, "ow_ret")
    /\ UNCHANGED << table, masks, route_lock, streams, last, ncalls >>

(***************************************************************************)
(* out_standby                                                             *)
(***************************************************************************)
\* A variant that closes the transport without testing out->pcm.
out_standby_call_unchecked(t, s) ==
    /\ pc[t] = "idle"
    /\ Enter
    /\ out_stream[s] = "live"
    /\ OutIdle(s)
    /\ call' = [call EXCEPT ![t].op = "out_standby", ![t].s = s]
    /\ Goto(t, "os_close")
    /\ UNCHANGED << table, masks, route_lock, streams, last >>

\* if (out->pcm) ... ; return 0
out_standby_call(t, s) ==
    /\ pc[t] = "idle"
    /\ Enter
    /\ out_stream[s] = "live"
    /\ OutIdle(s)
    /\ call' = [call EXCEPT ![t].op = "out_standby", ![t].s = s,
                            ![t].ret = IF out_pcm[s] # NULL THEN @ ELSE "0"]
    /\ Goto(t, IF out_pcm[s] # NULL THEN "os_close" ELSE "os_ret")
    /\ UNCHANGED << table, masks, route_lock, streams, last >>

\* ret = pcm_close(out->pcm); if (ret != 0) return ret; out->pcm = NULL
out_standby_close(t) ==
    /\ pc[t] = "os_close"
    /\ \E ok \in BOOLEAN :
         LET n == NextIdx(1, TRUE)
         IN  IF ok
             THEN /\ out_pcm' = [out_pcm EXCEPT ![call[t].s] = NULL]
                  /\ call' = [call EXCEPT ![t].i = n,
                                          ![t].ret = IF n > Len(dev_cfgs) THEN "0" ELSE @]
                  /\ Goto(t, IF n > Len(dev_cfgs) THEN "os_ret" ELSE "os_test")
             ELSE /\ call' = [call EXCEPT ![t].ret = "-EIO"]
                  /\ Goto(t, "os_ret")
                  /\ UNCHANGED out_pcm
    /\ UNCHANGED << table, masks, route_lock, out_stream, in_stream, in_pcm, in_lock, last, ncalls >>

\* if (out->adev->devices_out & out->adev->dev_cfgs[i].mask)
out_standby_test(t) ==
    /\ RouteTest(t, "os_test", "os_off", "os_ret", TRUE, devices_out)
    /\ UNCHANGED << table, masks, route_lock, streams, last, ncalls >>

\* set_route_by_array(out->adev->mixer, out->adev->dev_cfgs[i].off, ...)
out_standby_off(t) ==
    /\ RouteApply(t, "os_off", "os_test", "os_ret", TRUE, "off")
    /\ UNCHANGED << table, masks, route_lock, streams, ncalls >>

(***************************************************************************)
(* in_read.  in->lock is never taken: calls on one input stream may        *)
(* overlap.                                                                *)
(***************************************************************************)
in_read_call(t, s) ==
    /\ pc[t] = "idle"
    /\ Enter
    /\ in_stream[s] = "live"
    /\ LET n == NextIdx(1, FALSE)
       IN  /\ call' = [call EXCEPT ![t].op = "in_read", ![t].s = s, ![t].i = n,
                                   ![t].ret = IF in_pcm[s] # NULL THEN "bytes" ELSE @]
           /\ Goto(t, IF in_pcm[s] # NULL THEN "ir_ret"
                      ELSE IF n > Len(dev_cfgs) THEN "ir_open" ELSE "ir_test")
    /\ UNCHANGED << table, masks, route_lock, streams, last >>

\* if (in->adev->devices_in & in->adev->dev_cfgs[i].mask)
in_read_test(t) ==
    /\ RouteTest(t, "ir_test", "ir_on", "ir_open", FALSE, devices_in)
    /\ UNCHANGED << table, masks, route_lock, streams, last, ncalls >>

in_read_on(t) ==
    /\ RouteApply(t, "ir_on", "ir_test", "ir_open", FALSE, "on")
    /\ UNCHANGED << table, masks, route_lock, streams, ncalls >>

\* in->pcm = pcm_open(...); if (!pcm_is_ready(in->pcm)) { pcm_close; return -ENOMEM; }
\* the read itself is a stub: return bytes
in_read_open(t) ==
    /\ pc[t] = "ir_open"
    /\ \E ready \in BOOLEAN :
         /\ in_pcm' = [in_pcm EXCEPT ![call[t].s] = IF ready THEN "ready" ELSE "closed"]
         /\ call' = [call EXCEPT ![t].card = "CARD_ABE",
                                 ![t].ret = IF ready THEN "bytes" ELSE "-ENOMEM"]
    /\ Goto(t, "ir_ret")
    /\ UNCHANGED << table, masks, route_lock, out_stream, out_pcm, in_stream, in_lock,
                    last, ncalls >>

(***************************************************************************)
(* in_standby                                                              *)
(***************************************************************************)
in_standby_call(t, s) ==
    /\ pc[t] = "idle"
    /\ Enter
    /\ in_stream[s] = "live"
    /\ call' = [call EXCEPT ![t].op = "in_standby", ![t].s = s,
                            ![t].ret = IF in_pcm[s] # NULL THEN @ ELSE "0"]
    /\ Goto(t, IF in_pcm[s] # NULL THEN "is_close" ELSE "is_ret")
    /\ UNCHANGED << table, masks, route_lock, streams, last >>

in_standby_close(t) ==
    /\ pc[t] = "is_close"
    /\ \E ok \in BOOLEAN :
         LET n == NextIdx(1, FALSE)
         IN  IF ok
             THEN /\ in_pcm' = [in_pcm EXCEPT ![call[t].s] = NULL]
                  /\ call' = [call EXCEPT ![t].i = n,
                                          ![t].ret = IF n > Len(dev_cfgs) THEN "0" ELSE @]
                  /\ Goto(t, IF n > Len(dev_cfgs) THEN "is_ret" ELSE "is_test")
             ELSE /\ call' = [call EXCEPT ![t].ret = "-EIO"]
                  /\ Goto(t, "is_ret")
                  /\ UNCHANGED in_pcm
    /\ UNCHANGED << table, masks, route_lock, out_stream, out_pcm, in_stream, in_lock,
                    last, ncalls >>

in_standby_test(t) ==
    /\ RouteTest(t, "is_test", "is_off", "is_ret", FALSE, devices_in)
    /\ UNCHANGED << table, masks, route_lock, streams, last, ncalls >>

in_standby_off(t) ==
    /\ RouteApply(t, "is_off", "is_test", "is_ret", FALSE, "off")
    /\ UNCHANGED << table, masks, route_lock, streams, ncalls >>

(***************************************************************************)
(* Closing a stream: if (pcm) pcm_close(pcm); free(stream).  It is the     *)
(* last call the framework makes on the stream.                            *)
(***************************************************************************)
adev_close_output_stream(t, s) ==
    /\ pc[t] = "idle"
    /\ Enter
    /\ out_stream[s] = "live"
    /\ OutIdle(s)
    /\ out_stream' = [out_stream EXCEPT ![s] = "free"]
    /\ out_pcm' = [out_pcm EXCEPT ![s] = NULL]
    /\ UNCHANGED << table, masks, route_lock, in_stream, in_pcm, in_lock, pc, call, last >>

adev_close_input_stream(t, s) ==
    /\ pc[t] = "idle"
    /\ Enter
    /\ in_stream[s] = "live"
    /\ InIdle(s)
    /\ in_stream' = [in_stream EXCEPT ![s] = "free"]
    /\ in_pcm' = [in_pcm EXCEPT ![s] = NULL]
    /\ UNCHANGED << table, masks, route_lock, out_stream, out_pcm, in_lock, pc, call, last >>

(***************************************************************************)
(* adev_get_supported_devices: for (i...) supported |= dev_cfgs[i].mask    *)
(***************************************************************************)
RECURSIVE supported_or(_, _, _)
supported_or(cfgs, i, supported) ==
    IF i > Len(cfgs) THEN supported
    ELSE supported_or(cfgs, i + 1, supported \cup cfgs[i].mask)

\* A variant that assigns the mask of the entry instead of or-ing it in.
adev_get_supported_devices_assign(t) ==
    /\ device = "open"
    /\ pc[t] = "idle"
    /\ Enter
    /\ call' = [call EXCEPT ![t].op = "adev_get_supported_devices",
                            ![t].supported = IF dev_cfgs = <<>> THEN {}
                                             ELSE dev_cfgs[Len(dev_cfgs)].mask]
    /\ Goto(t, "gs_ret")
    /\ UNCHANGED << table, masks, route_lock, streams, last >>

adev_get_supported_devices(t) ==
    /\ device = "open"
    /\ pc[t] = "idle"
    /\ Enter
    /\ call' = [call EXCEPT ![t].op = "adev_get_supported_devices",
                            ![t].supported = supported_or(dev_cfgs, 1, {})]
    /\ Goto(t, "gs_ret")
    /\ UNCHANGED << table, masks, route_lock, streams, last >>

(***************************************************************************)
(* The return of a call to the framework.  adev_open publishes the device  *)
(* through its device argument, and the open calls their stream.           *)
(***************************************************************************)
RetPcs ==
    {"ao_ret", "oo_ret", "oi_ret", "sp_ret", "ow_ret", "os_ret", "ir_ret", "is_ret",
     "gs_ret"}

Return(t) ==
    /\ pc[t] \in RetPcs
    /\ device' = IF pc[t] = "ao_ret"
                 THEN (IF call[t].ret = "0" THEN "open" ELSE "failed")
                 ELSE device
    /\ out_stream' = IF pc[t] = "oo_ret"
                     THEN [out_stream EXCEPT ![call[t].s] = "live"]
                     ELSE out_stream
    /\ in_stream' = IF pc[t] = "oi_ret"
                    THEN [in_stream EXCEPT ![call[t].s] = "live"]
                    ELSE in_stream
    /\ call' = [call EXCEPT ![t] = NoCall]
    /\ Goto(t, "idle")
    /\ UNCHANGED << cfg, dev_cfgs, masks, route_lock, out_pcm, in_pcm, in_lock, last, ncalls,
                    calls_allowed >>

\* a step of thread t
Step(t) ==
    \/ adev_open(t)
    \/ \E s \in OutIds, d \in OutDevices : adev_open_output_stream_call(t, s, d)
    \/ adev_open_output_stream_lock(t)
    \/ adev_open_output_stream_clear(t)
    \/ adev_open_output_stream_select(t)
    \/ adev_open_output_stream_unlock(t)
    \/ \E s \in InIds, d \in InDevices : adev_open_input_stream_call(t, s, d)
    \/ adev_open_input_stream_lock(t)
    \/ adev_open_input_stream_clear(t)
    \/ adev_open_input_stream_select(t)
    \/ adev_open_input_stream_unlock(t)
    \/ \E s \in OutIds, key \in BOOLEAN, val \in OutDevices \cup {{}} :
           out_set_parameters_call(t, s, key, val)
    \/ out_set_parameters_lock(t)
    \/ out_set_parameters_clear(t)
    \/ out_set_parameters_select(t)
    \/ out_set_parameters_unlock(t)
    \/ \E s \in OutIds : out_write_call(t, s)
    \/ out_write_test(t)
    \/ out_write_on(t)
    \/ out_write_open(t)
    \/ out_write_mmap(t)
    \/ \E s \in OutIds : out_standby_call(t, s)
    \/ out_standby_close(t)
    \/ out_standby_test(t)
    \/ out_standby_off(t)
    \/ \E s \in InIds : in_read_call(t, s)
    \/ in_read_test(t)
    \/ in_read_on(t)
    \/ in_read_open(t)
    \/ \E s \in InIds : in_standby_call(t, s)
    \/ in_standby_close(t)
    \/ in_standby_test(t)
    \/ in_standby_off(t)
    \/ \E s \in OutIds : adev_close_output_stream(t, s)
    \/ \E s \in InIds : adev_close_input_stream(t, s)
    \/ adev_get_supported_devices(t)
    \/ Return(t)

Next == \E t \in Threads : Step(t)

Spec == Init /\ [][Next]_vars

\* Every thread that can take a step eventually takes one: a thread inside a
\* call is scheduled, and a thread blocked in pthread_mutex_lock gets the
\* lock once it stays free.
InitFair == InitCalls(MaxFairCalls)

FairSpec == InitFair /\ [][Next]_vars /\ \A t \in Threads : WF_vars(Step(t))

\* The framework making its calls one after the other, from one thread.
InitSeq == InitCalls(MaxSeqCalls)

NextSeq == Step(1)

SpecSeq == InitSeq /\ [][NextSeq]_vars

(***************************************************************************)
(* Properties.                                                             *)
(***************************************************************************)
\* the thread has just come back from select_output_devices / select_input_devices
AfterOutputSelect(t) == pc[t] \in {"oo_unlock", "sp_unlock"}
AfterInputSelect(t) == pc[t] = "oi_unlock"

\* C1: right after select_output_devices returns, the active output mask is
\* the requested output mask, and likewise select_input_devices and the
\* input masks, whether or not mixer writes of the call failed; it holds
\* after the two calls of adev_open as well.
C1_ActiveEqualsRequested ==
    \A t \in Threads :
        /\ AfterOutputSelect(t) =>
              active_devices_out = devices_out /\ devices_out = call[t].req
        /\ AfterInputSelect(t) =>
              active_devices_in = devices_in /\ devices_in = call[t].req
        /\ (pc[t] = "ao_ret" /\ call[t].ret = "0") =>
              /\ active_devices_out = devices_out
              /\ active_devices_in = devices_in

\* a select call that changed the masks, made mixer calls, and had a write fail
C1_Witness ==
    \E t \in Threads :
        /\ AfterOutputSelect(t)
        /\ call[t].failed
        /\ call[t].log # <<>>
        /\ call[t].act # call[t].req

\* the masks of the mixer calls of a log, with their paths
LogMasks(log) == [k \in 1..Len(log) |-> [mask |-> dev_cfgs[log[k].cfg].mask,
                                         path |-> log[k].path]]

HEADPHONE == AUDIO_DEVICE_OUT_WIRED_HEADSET \cup AUDIO_DEVICE_OUT_WIRED_HEADPHONE

\* the route table has an entry of this mask
HasEntry(mask) == \E i \in 1..Len(dev_cfgs) : dev_cfgs[i].mask = mask

\* C2: in the mixer calls of one select call no off-sequence comes before an
\* on-sequence; and, on a table with a speaker and a headphone entry,
\* selecting SPEAKER while HEADPHONE (0x4|0x8) is active calls SPEAKER.on,
\* then HEADPHONE.off, and leaves the active mask at 0x2.
C2_OnBeforeOff ==
    \A t \in Threads :
        /\ (AfterOutputSelect(t) \/ AfterInputSelect(t)) =>
              \A j, k \in 1..Len(call[t].log) :
                  (call[t].log[j].path = "off" /\ call[t].log[k].path = "on") => k < j
        /\ (AfterOutputSelect(t) /\ call[t].act = HEADPHONE
                                 /\ call[t].req = AUDIO_DEVICE_OUT_SPEAKER
                                 /\ HasEntry(HEADPHONE)
                                 /\ HasEntry(AUDIO_DEVICE_OUT_SPEAKER)) =>
              /\ LogMasks(call[t].log) =
                    << [mask |-> AUDIO_DEVICE_OUT_SPEAKER, path |-> "on"],
                       [mask |-> HEADPHONE, path |-> "off"] >>
              /\ active_devices_out = AUDIO_DEVICE_OUT_SPEAKER

C2_Witness ==
    \E t \in Threads :
        /\ AfterOutputSelect(t)
        /\ call[t].act = HEADPHONE
        /\ call[t].req = AUDIO_DEVICE_OUT_SPEAKER
        /\ Len(call[t].log) = 2

\* C3: opening an input stream for BUILTIN_MIC while AMBIENT is the active
\* input device applies BUILTIN_MIC.on and AMBIENT.off and leaves the active
\* input mask at BUILTIN_MIC.
C3_MicReplacesAmbient ==
    \A t \in Threads :
        (/\ AfterInputSelect(t)
         /\ call[t].devices = AUDIO_DEVICE_IN_BUILTIN_MIC
         /\ call[t].act = AUDIO_DEVICE_IN_AMBIENT) =>
            /\ \E k \in 1..Len(call[t].log) :
                   LogMasks(call[t].log)[k] =
                       [mask |-> AUDIO_DEVICE_IN_BUILTIN_MIC, path |-> "on"]
            /\ \E k \in 1..Len(call[t].log) :
                   LogMasks(call[t].log)[k] =
                       [mask |-> AUDIO_DEVICE_IN_AMBIENT, path |-> "off"]
            /\ active_devices_in = AUDIO_DEVICE_IN_BUILTIN_MIC

\* C4: a mixer call writes every setting of its sequence whose control the
\* mixer has, wherever in the sequence a control is missing.
C4_MissingControlSkipped ==
    \A t \in Threads :
        \A k \in 1..Len(call[t].log) :
            Writes(dev_cfgs, call[t].log[k]) =
                SelectSeq(RouteOf(dev_cfgs, call[t].log[k]),
                          LAMBDA r : r.ctl_name \in MixerControls)

\* C5: when the transport cannot be readied on the first write (read) after
\* standby, the call fails and the handle of the stream is still null.
C5_FailedOpenStaysStandby ==
    \A t \in Threads :
        /\ (pc[t] = "ow_ret" /\ call[t].ret = "-EBUSY") => out_pcm[call[t].s] = NULL
        /\ (pc[t] = "ir_ret" /\ call[t].ret = "-ENOMEM") => in_pcm[call[t].s] = NULL

\* the pcs at which the next step of the thread reads or writes a requested
\* or active mask
MaskAccessPcs ==
    {"oo_clear", "oo_select", "oi_clear", "oi_select", "sp_clear", "sp_select",
     "ow_test", "ow_open", "os_test", "ir_test", "is_test"}

\* C6: a thread that reads or writes a requested or active mask, or runs a
\* select, holds the route lock.
C6_MasksUnderRouteLock ==
    \A t \in Threads : pc[t] \in MaskAccessPcs => route_lock = t

\* C7: a select call whose requested mask already equals the active mask
\* makes no mixer call and changes no mask.
C7_SelectNoOpWhenEqual ==
    [][\A t \in Threads :
          /\ (/\ pc[t] \in {"oo_select", "sp_select"}
              /\ pc'[t] # pc[t]
              /\ devices_out \cup call[t].devices = active_devices_out) =>
                 /\ call'[t].log = <<>>
                 /\ last' = last
                 /\ active_devices_out' = active_devices_out
                 /\ devices_out' = active_devices_out
                 /\ UNCHANGED << devices_in, active_devices_in >>
          /\ (/\ pc[t] = "oi_select"
              /\ pc'[t] # pc[t]
              /\ devices_in \cup call[t].devices = active_devices_in) =>
                 /\ call'[t].log = <<>>
                 /\ last' = last
                 /\ active_devices_in' = active_devices_in
                 /\ devices_in' = active_devices_in
                 /\ UNCHANGED << devices_out, active_devices_out >>
      ]_vars

C7_Witness ==
    \E t \in Threads :
        /\ pc[t] = "sp_unlock"
        /\ call[t].req = call[t].act
        /\ call[t].req # {}
        /\ call[t].log = <<>>

\* C8: when adev_open_output_stream has made its selection for the device
\* set D, every output device bit of the requested and of the active output
\* mask is in D: no bit of the previous selection outside D is left.
C8_OpenReplacesOutputs ==
    \A t \in Threads :
        pc[t] = "oo_unlock" =>
            /\ (devices_out \cap AUDIO_DEVICE_OUT_ALL) \subseteq call[t].devices
            /\ (active_devices_out \cap AUDIO_DEVICE_OUT_ALL) \subseteq call[t].devices

\* a second output stream is opened while the first is open and another
\* device is active
C8_Witness ==
    \E t \in Threads :
        /\ pc[t] = "oo_unlock"
        /\ call[t].s = 2
        /\ out_stream[1] = "live"
        /\ call[t].act \ call[t].devices # {}

\* no mixer call appears twice in the log
NoRepeat(log) == \A j, k \in 1..Len(log) : log[j] = log[k] => j = k

\* C9: out_standby (in_standby) on a stream whose handle is null closes
\* nothing, applies no off-sequence and changes no state; a standby that
\* closes the transport leaves the handle null, so that the next standby in
\* a row is such a call; and one standby applies an off-sequence at most once.
C9_StandbyIdempotent ==
    /\ [](\A t \in Threads :
             call[t].op \in {"out_standby", "in_standby"} => NoRepeat(call[t].log))
    /\ [][\A t \in Threads :
          /\ (pc[t] = "idle" /\ call'[t].op = "out_standby"
                             /\ out_pcm[call'[t].s] = NULL) =>
                 /\ pc'[t] = "os_ret"
                 /\ call'[t].ret = "0"
                 /\ call'[t].log = <<>>
                 /\ UNCHANGED << masks, streams, last, route_lock >>
          /\ (pc[t] = "idle" /\ call'[t].op = "in_standby"
                             /\ in_pcm[call'[t].s] = NULL) =>
                 /\ pc'[t] = "is_ret"
                 /\ call'[t].ret = "0"
                 /\ call'[t].log = <<>>
                 /\ UNCHANGED << masks, streams, last, route_lock >>
          /\ (pc[t] = "os_close" /\ pc'[t] # "os_close" /\ call'[t].ret # "-EIO") =>
                 out_pcm'[call[t].s] = NULL
          /\ (pc[t] = "is_close" /\ pc'[t] # "is_close" /\ call'[t].ret # "-EIO") =>
                 in_pcm'[call[t].s] = NULL
      ]_vars

\* a standby call that found the stream in standby, after an earlier standby
\* has applied the off-sequence of a device that is still requested
C9_Witness ==
    \E t \in Threads :
        /\ pc[t] = "os_ret"
        /\ call[t].ret = "0"
        /\ call[t].log = <<>>
        /\ out_pcm[call[t].s] = NULL
        /\ \E i \in 1..Len(dev_cfgs) :
              /\ BelowBitIn(dev_cfgs[i].mask)
              /\ And(devices_out, dev_cfgs[i].mask)
              /\ last[i] = "off"

\* C10: a routing update with a non-empty value v leaves requested = active
\* = v, and no other thread reads the requested output mask or tests it for a
\* route between the clearing of the old selection and the setting of v.
C10_AtomicRoutingUpdate ==
    [][\A t \in Threads :
          /\ (pc[t] = "sp_select" /\ pc'[t] = "sp_unlock") =>
                 /\ devices_out' = call[t].devices
                 /\ active_devices_out' = call[t].devices
          /\ (pc[t] = "sp_select" /\ pc'[t] = "sp_select") =>
                 \A u \in Threads \ {t} :
                     pc[u] \in {"ow_test", "ow_open", "os_test"} =>
                         (pc'[u] = pc[u] /\ call'[u] = call[u])
      ]_vars

\* C11: out_set_parameters with the routing key and the value zero goes
\* straight to its return: it takes no lock, changes neither the requested
\* nor the active masks, makes no mixer call, runs no selection, and
\* returns the non-negative result of the key lookup.
C11_ZeroRoutingNoOp ==
    /\ [](\A t \in Threads :
             (call[t].op = "out_set_parameters" /\ call[t].devices = {}) =>
                 /\ pc[t] = "sp_ret"
                 /\ call[t].log = <<>>
                 /\ route_lock # t)
    /\ [][\A t \in Threads :
            (/\ pc[t] \in {"idle", "sp_ret"}
             /\ pc'[t] # pc[t]
             /\ (IF pc[t] = "idle" THEN call'[t] ELSE call[t]).op = "out_set_parameters"
             /\ (IF pc[t] = "idle" THEN call'[t] ELSE call[t]).devices = {}
             /\ (IF pc[t] = "idle" THEN call'[t] ELSE call[t]).ret = ">=0") =>
                /\ pc'[t] = (IF pc[t] = "idle" THEN "sp_ret" ELSE "idle")
                /\ UNCHANGED << masks, last, route_lock, streams >>
      ]_vars

\* a zero routing value arrives while an output device is active
C11_Witness ==
    \E t \in Threads :
        /\ pc[t] = "sp_ret"
        /\ call[t].devices = {}
        /\ call[t].ret = ">=0"
        /\ active_devices_out # {}
        /\ \E i \in 1..Len(dev_cfgs) : last[i] = "on"

\* the mixer calls of a log are all for route entries in the output range
\* (isout) or all for entries in the input range
InRange(cfgs, log, isout) ==
    \A k \in 1..Len(log) : BelowBitIn(cfgs[log[k].cfg].mask) = isout

\* device values with output bits, input bits and the input flag mixed
CrossMasks == SUBSET {1, 2, 3, 31}

\* C12: select_output_devices, for any requested and active value, calls
\* only sequences of output-range entries, and select_input_devices only of
\* input-range entries; a step of a call that replaces the output selection
\* leaves both input masks as they are and touches no input-range entry,
\* and a step that replaces the input selection leaves both output masks
\* and every output-range entry alone.
C12_NoCrossTalk ==
    /\ []((device = "open" /\ ncalls = 0) =>
             \A req, act \in CrossMasks :
                 /\ InRange(dev_cfgs, select_output_devices(dev_cfgs, req, act).calls, TRUE)
                 /\ InRange(dev_cfgs, select_input_devices(dev_cfgs, req, act).calls, FALSE))
    /\ [][\A t \in Threads :
          /\ (pc[t] \in {"oo_clear", "oo_select", "sp_clear", "sp_select"}
                  /\ pc'[t] # pc[t]) =>
                 /\ UNCHANGED << devices_in, active_devices_in >>
                 /\ InRange(dev_cfgs, call'[t].log, TRUE)
                 /\ \A i \in 1..Len(dev_cfgs) :
                        last'[i] # last[i] => BelowBitIn(dev_cfgs[i].mask)
          /\ (pc[t] \in {"oi_clear", "oi_select"} /\ pc'[t] # pc[t]) =>
                 /\ UNCHANGED << devices_out, active_devices_out >>
                 /\ InRange(dev_cfgs, call'[t].log, FALSE)
                 /\ \A i \in 1..Len(dev_cfgs) :
                        last'[i] # last[i] => ~BelowBitIn(dev_cfgs[i].mask)
      ]_vars

\* an output selection that made mixer calls for a device whose bit position
\* an active input device shares (WIRED_HEADSET 0x4, BUILTIN_MIC 0x80000004)
C12_Witness ==
    \E t \in Threads :
        /\ AfterOutputSelect(t)
        /\ call[t].log # <<>>
        /\ And(call[t].req, active_devices_in)
        /\ And(call[t].req, devices_in)

\* the steps of in_read and in_standby between the test of in->pcm and the
\* last use of the stream: the routes are applied and the transport opened
\* (closed) there
InTransportPcs == {"ir_test", "ir_on", "ir_open", "is_close", "is_test", "is_off"}

\* C13: a thread inside the open-transport section of in_read or the
\* close-transport section of in_standby holds the lock of that input
\* stream, so that two calls on one input stream are never inside these
\* sections together.
C13_InputStreamLock ==
    \A t \in Threads :
        (call[t].op \in InOps /\ pc[t] \in InTransportPcs) =>
            /\ in_lock[call[t].s] = t
            /\ \A u \in Threads \ {t} :
                   ~(call[u].op \in InOps /\ call[u].s = call[t].s
                                          /\ pc[u] \in InTransportPcs)

\* C14: when the configuration file is missing, cannot be read or is
\* malformed, adev_open returns an error, the device is never published
\* (nothing can be called on it), and no route selection is made: no mask is
\* set and no sequence of a route entry is applied.
C14_ConfigFailureFatal ==
    cfg.status # "ok" =>
        /\ device \in {"unopened", "opening", "failed"}
        /\ ncalls = 0
        /\ devices_out = {} /\ active_devices_out = {}
        /\ devices_in = {} /\ active_devices_in = {}
        /\ \A i \in 1..Len(last) : last[i] = "none"
        /\ \A t \in Threads :
               pc[t] = "ao_ret" => (call[t].ret # "0" /\ call[t].log = <<>>)

\* adev_open has failed on a file whose speaker block had been parsed when
\* the error was met, with the mixer open
C14_Witness ==
    /\ device = "failed"
    /\ cfg.status \in {"ioerror", "malformed"}
    /\ dev_cfgs # <<>>

\* C15: loading the board file whose first block names the unknown device
\* "hdmi" succeeds, makes a route table with the speaker entry alone,
\* holding the speaker's own sequences, and writes none of the settings of
\* the hdmi block to the mixer.
C15_UnknownDeviceSkipped ==
    \A t \in Threads :
        (pc[t] = "ao_ret" /\ cfg = HdmiConfig /\ dev_cfgs # <<>>) =>
            /\ call[t].ret = "0"
            /\ Len(dev_cfgs) = 1
            /\ dev_cfgs[1].mask = AUDIO_DEVICE_OUT_SPEAKER
            /\ \A r \in {dev_cfgs[1].on[k] : k \in 1..Len(dev_cfgs[1].on)}
                     \cup {dev_cfgs[1].off[k] : k \in 1..Len(dev_cfgs[1].off)} :
                   r.ctl_name = "Speaker Switch"
            /\ \A k \in 1..Len(call[t].applied) :
                   set_route_by_array(MixerControls, call[t].applied[k]).writes = <<>>

\* the masks dev_names gives to the names of the device blocks of a file
KnownMasks(file) ==
    UNION { dev_names[j].mask : j \in
              { j \in 1..Len(dev_names) :
                  \E k \in 1..Len(file.events) :
                      /\ file.events[k].kind = "start"
                      /\ file.events[k].elem = "device"
                      /\ file.events[k].name = dev_names[j].name } }

\* C16: adev_get_supported_devices returns the union of the masks of the
\* device blocks of the loaded file that have a known name, and no other
\* bit.
C16_SupportedIsUnion ==
    \A t \in Threads :
        pc[t] = "gs_ret" => call[t].supported = KnownMasks(cfg)

\* the call is made on a table of several entries, output and input
C16_Witness ==
    \E t \in Threads :
        /\ pc[t] = "gs_ret"
        /\ Len(dev_cfgs) > 1
        /\ And(call[t].supported, AUDIO_DEVICE_BIT_IN)
        /\ And(call[t].supported, AUDIO_DEVICE_OUT_SPEAKER)

\* the route entries for which the log has a call of the path
Called(log, path) == {log[k].cfg : k \in {k \in 1..Len(log) : log[k].path = path}}

\* the entries in the output (isout) or input range whose mask meets a and
\* does not meet b
Newly(isout, a, b) ==
    {i \in 1..Len(dev_cfgs) : /\ BelowBitIn(dev_cfgs[i].mask) = isout
                              /\ And(a, dev_cfgs[i].mask)
                              /\ ~And(b, dev_cfgs[i].mask)}

\* C17: a select call with requested # active has applied the on-sequence of
\* exactly the entries of its range whose mask meets the requested and not
\* the active mask, the off-sequence of exactly those whose mask meets the
\* active and not the requested mask, none of them twice, and nothing for
\* an entry that meets both masks or neither.
C17_ExactOnOffSets ==
    \A t \in Threads :
        /\ (AfterOutputSelect(t) /\ call[t].req # call[t].act) =>
              /\ Called(call[t].log, "on") = Newly(TRUE, call[t].req, call[t].act)
              /\ Called(call[t].log, "off") = Newly(TRUE, call[t].act, call[t].req)
              /\ NoRepeat(call[t].log)
        /\ (AfterInputSelect(t) /\ call[t].req # call[t].act) =>
              /\ Called(call[t].log, "on") = Newly(FALSE, call[t].req, call[t].act)
              /\ Called(call[t].log, "off") = Newly(FALSE, call[t].act, call[t].req)
              /\ NoRepeat(call[t].log)

\* requested # active with an entry that meets both masks and got no call
\* (the headphone entry, with 0x4 active and 0x8 requested)
C17_Witness ==
    \E t \in Threads :
        /\ AfterOutputSelect(t)
        /\ call[t].req # call[t].act
        /\ \E i \in 1..Len(dev_cfgs) :
              /\ And(call[t].req, dev_cfgs[i].mask)
              /\ And(call[t].act, dev_cfgs[i].mask)
              /\ i \notin Called(call[t].log, "on") \cup Called(call[t].log, "off")

\* the entries of the output (isout) or input range whose device is in the
\* requested mask devs; AUDIO_DEVICE_BIT_IN marks a mask as an input mask and
\* is no device
RequestedEntries(isout, devs) ==
    {i \in 1..Len(dev_cfgs) :
        /\ BelowBitIn(dev_cfgs[i].mask) = isout
        /\ And(devs \ AUDIO_DEVICE_BIT_IN, dev_cfgs[i].mask \ AUDIO_DEVICE_BIT_IN)}

\* C18: when the first out_write (in_read) after standby comes to open the
\* transport, it has applied the on-sequence of exactly the entries of its
\* range whose device is requested, and the off-sequence of none.
C18_LazyOnForRequested ==
    \A t \in Threads :
        /\ pc[t] = "ow_open" =>
              /\ Called(call[t].log, "on") = RequestedEntries(TRUE, devices_out)
              /\ Called(call[t].log, "off") = {}
        /\ pc[t] = "ir_open" =>
              /\ Called(call[t].log, "on") = RequestedEntries(FALSE, devices_in)
              /\ Called(call[t].log, "off") = {}

\* C19: while an open output (input) stream holds no transport handle, the
\* on-sequence is not the most recently applied sequence of any route entry
\* of the output (input) range.
C19_StandbyRoutesOff ==
    /\ \A s \in OutIds :
          (out_stream[s] = "live" /\ out_pcm[s] = NULL) =>
              \A i \in 1..Len(dev_cfgs) :
                  BelowBitIn(dev_cfgs[i].mask) => last[i] # "on"
    /\ \A s \in InIds :
          (in_stream[s] = "live" /\ in_pcm[s] = NULL) =>
              \A i \in 1..Len(dev_cfgs) :
                  ~BelowBitIn(dev_cfgs[i].mask) => last[i] # "on"

\* the pcs of a standby call after its test of the handle
StandbyPcs == {"os_close", "os_test", "os_off", "is_close", "is_test", "is_off"}

\* C20: a standby call that found a transport handle closes it and sets the
\* handle to null, and returns with the off-sequence applied of every entry
\* of its range whose device is requested (an output stream, on which the
\* framework makes one call at a time, with its handle still null); no step
\* of standby changes a requested or an active mask.
C20_StandbyClosesAndTurnsOff ==
    /\ [](\A t \in Threads :
             /\ (pc[t] = "os_ret" /\ call[t].i > 0) =>
                   /\ out_pcm[call[t].s] = NULL
                   /\ RequestedEntries(TRUE, devices_out) \subseteq Called(call[t].log, "off")
             /\ (pc[t] = "is_ret" /\ call[t].i > 0) =>
                   RequestedEntries(FALSE, devices_in) \subseteq Called(call[t].log, "off"))
    /\ [][\A t \in Threads :
            /\ (pc[t] \in StandbyPcs /\ (pc'[t] # pc[t] \/ call'[t] # call[t])) =>
                   UNCHANGED masks
            /\ (pc[t] = "is_close" /\ pc'[t] # pc[t] /\ call'[t].i > 0) =>
                   in_pcm'[call[t].s] = NULL
            /\ (pc[t] = "os_close" /\ pc'[t] # pc[t] /\ call'[t].i > 0) =>
                   out_pcm'[call[t].s] = NULL
      ]_vars

\* C21: in the route table of a loaded file no device bit is in the masks of
\* two entries of one range (the reserved bit AUDIO_DEVICE_BIT_IN apart,
\* which marks the input range), and every entry is either an output entry,
\* with the reserved bit clear, or an input entry, with it set.
C21_MaskBitsUnique ==
    /\ \A i, j \in 1..Len(dev_cfgs) :
          (i # j /\ BelowBitIn(dev_cfgs[i].mask) = BelowBitIn(dev_cfgs[j].mask)) =>
              ~And(dev_cfgs[i].mask \ AUDIO_DEVICE_BIT_IN,
                   dev_cfgs[j].mask \ AUDIO_DEVICE_BIT_IN)
    /\ \A i \in 1..Len(dev_cfgs) :
          \/ dev_cfgs[i].mask \subseteq AUDIO_DEVICE_OUT_ALL
          \/ /\ And(dev_cfgs[i].mask, AUDIO_DEVICE_BIT_IN)
             /\ dev_cfgs[i].mask \subseteq AUDIO_DEVICE_IN_ALL

\* C22: when every call has returned, the on-sequence is the most recently
\* applied sequence of no output entry whose device is outside the requested
\* output mask, however the steps of out_write and of a routing update of
\* another thread were interleaved.
C22_NoStaleOn ==
    (device = "open" /\ \A t \in Threads : pc[t] = "idle") =>
        \A i \in 1..Len(dev_cfgs) :
            (BelowBitIn(dev_cfgs[i].mask) /\ last[i] = "on") =>
                And(devices_out, dev_cfgs[i].mask)

\* C23: pcm_mmap_write and pcm_close are only called on a handle that became
\* ready and has not been closed: a write that skips the open, a standby
\* that closes, and the close of a stream with a non-null handle all find
\* the handle ready.
C23_NoUseOfClosedHandle ==
    /\ [](\A t \in Threads :
             /\ pc[t] \in {"ow_mmap", "os_close"} => out_pcm[call[t].s] = "ready"
             /\ pc[t] = "is_close" => in_pcm[call[t].s] = "ready")
    /\ [][/\ \A s \in OutIds :
               (out_stream[s] = "live" /\ out_stream'[s] = "free") =>
                   out_pcm[s] \in {NULL, "ready"}
          /\ \A s \in InIds :
               (in_stream[s] = "live" /\ in_stream'[s] = "free") =>
                   in_pcm[s] \in {NULL, "ready"}
      ]_vars

\* C24: with the calls made one after the other, while some open output
\* stream has a ready transport and no call is in progress, the on-sequence
\* is the most recently applied sequence of every output entry whose device
\* is requested: the standby of one stream does not turn off the route
\* another stream is playing through.
C24_ActiveStreamsKeepRoutes ==
    (/\ \A t \in Threads : pc[t] = "idle"
     /\ \E s \in OutIds : out_stream[s] = "live" /\ out_pcm[s] = "ready") =>
        \A i \in 1..Len(dev_cfgs) :
            (BelowBitIn(dev_cfgs[i].mask) /\ And(devices_out, dev_cfgs[i].mask)) =>
                last[i] = "on"

\* the pcs inside the critical section of the route lock, and those of a
\* thread waiting for it
LockedPcs ==
    {"oo_clear", "oo_select", "oo_unlock", "oi_clear", "oi_select", "oi_unlock",
     "sp_clear", "sp_select", "sp_unlock"}
LockWaitPcs == {"oo_lock", "oi_lock", "sp_lock"}

\* C25: the route lock is held only by a thread inside the critical section
\* of adev_open_output_stream, adev_open_input_stream or out_set_parameters
\* (it is released before the call returns and never asked for by its
\* holder), and under fair scheduling every call in progress returns.
C25_NoDeadlock ==
    /\ [](\A t \in Threads :
             /\ route_lock = t <=> pc[t] \in LockedPcs
             /\ pc[t] \in LockWaitPcs => route_lock # t)
    /\ \A t \in Threads : (pc[t] # "idle") ~> (pc[t] = "idle")

\* a thread waits for the route lock that another thread holds inside a
\* routing update
C25_Witness ==
    \E t, u \in Threads :
        /\ pc[t] \in LockWaitPcs
        /\ route_lock = u
        /\ pc[u] = "sp_select"

\* C26: on a table with the headphone entry (mask 0x4|0x8), a select that
\* moves the requested output mask from one bit of the entry to the other
\* applies neither the on- nor the off-sequence of the entry, and sets the
\* active mask to the new requested mask.
C26_MultiBitEntryIsOneDevice ==
    \A t \in Threads :
        (/\ AfterOutputSelect(t)
         /\ call[t].req # call[t].act
         /\ call[t].req # {} /\ call[t].req \subseteq HEADPHONE
         /\ call[t].act # {} /\ call[t].act \subseteq HEADPHONE) =>
            /\ \A k \in 1..Len(call[t].log) :
                   dev_cfgs[call[t].log[k].cfg].mask # HEADPHONE
            /\ active_devices_out = call[t].req
            /\ devices_out = call[t].req

\* a routing update from WIRED_HEADSET to WIRED_HEADPHONE with the headphone
\* route on
C26_Witness ==
    \E t \in Threads :
        /\ pc[t] = "sp_unlock"
        /\ call[t].act = AUDIO_DEVICE_OUT_WIRED_HEADSET
        /\ call[t].req = AUDIO_DEVICE_OUT_WIRED_HEADPHONE
        /\ \E i \in 1..Len(dev_cfgs) : dev_cfgs[i].mask = HEADPHONE /\ last[i] = "on"

====
